---- MODULE Spec2Model ----
\* Framebuffer drawing core of wasabi_learn_os: the bounds-checked pixel
\* surface (trait Bitmap), fill_rect, the integer line rasterizer, the glyph
\* table lookup and the text renderer (src/src/graphics.rs, src/src/main.rs).
EXTENDS Integers, Sequences, FiniteSets, TLC

VARIABLES width, height, pixels_per_line, buf, font_source, cursor_x, cursor_y, written, rendered, input, last, pc, overflow_checks

\* overflow_checks is the build's setting for integer overflow: on, an
\* overflowing + or - panics; off, it wraps. Only OverflowSpec draws inputs
\* whose sums leave the integer range, so only there are both settings run.
vars == <<width, height, pixels_per_line, buf, font_source, cursor_x, cursor_y, written, rendered, input, last, pc, overflow_checks>>

\* ------------------------------------------------------------------ bounds
MaxWidth == 3
MaxHeight == 2
MaxStride == 3
MaxCoord == 3
MaxExtent == 3
MaxDelta == 10
MaxBlocks == 2
MaxChars == 4
IntBits == 8

\* ---------------------------------------------------------------- helpers
\* Option<T>: None is the empty sequence, Some(v) the one-element sequence.
None == <<>>

Some(v) == <<v>>

IsSome(o) == Len(o) = 1

Unwrap(o) == o[1]

\* Result<()>: Ok(()) or Err(message).
Ok == [ok |-> TRUE, msg |-> ""]

Err(m) == [ok |-> FALSE, msg |-> m]

\* A call that panicked instead of returning; the panic handler then halts
\* the machine.
Panic(m) == [ok |-> FALSE, msg |-> m, panic |-> TRUE]

\* Coordinates and extents are signed two's-complement integers (i64 in the
\* source, IntBits bits wide here).
IntMin == -(2 ^ (IntBits - 1))

IntMax == (2 ^ (IntBits - 1)) - 1

Overflows(n) == n < IntMin \/ n > IntMax

wrapping(n) == ((n - IntMin) % (2 ^ IntBits)) + IntMin

\* a + b and a - b on the signed type: the value a build without overflow
\* checks computes, and whether the exact result left the type, in which case
\* a build with overflow checks panics.
add(a, b) == [v |-> wrapping(a + b), overflow |-> Overflows(a + b)]

sub(a, b) == [v |-> wrapping(a - b), overflow |-> Overflows(a - b)]

min(a, b) == IF a < b THEN a ELSE b

abs(n) == IF n < 0 THEN -n ELSE n

signum(n) == IF n > 0 THEN 1 ELSE IF n < 0 THEN -1 ELSE 0

\* Rust's integer division truncates toward zero.
TruncDiv(a, b) == IF (a >= 0) = (b > 0) THEN abs(a) \div abs(b) ELSE -(abs(a) \div abs(b))

\* The half-open range a..b of Rust, as a sequence (empty when b <= a).
Range(a, b) == [i \in 1..(IF b > a THEN b - a ELSE 0) |-> a + i - 1]

RECURSIVE Flatten(_)
Flatten(ss) == IF ss = <<>> THEN <<>> ELSE Head(ss) \o Flatten(Tail(ss))

\* ------------------------------------------------------------ PixelSurface
bytes_per_pixel == 4

\* The byte offsets of the pixel slots of a height x stride surface.
BufOffsets(h, s) == {bytes_per_pixel * i : i \in 0..(h * s - 1)}

\* Faulty variant: the visible extent taken from width alone, ignoring the stride.
is_in_x_range_WidthOnly(px) == 0 <= px /\ px < width

is_in_x_range(px) == 0 <= px /\ px < min(width, pixels_per_line)

\* Faulty variant: rows are checked against 0 only, not against the height.
is_in_y_range_NoUpper(py) == 0 <= py

is_in_y_range(py) == 0 <= py /\ py < height

\* The byte offset added to buf_mut().
unchecked_pixel_at_mut(x, y) == (y * pixels_per_line + x) * bytes_per_pixel

pixel_at_mut(x, y) ==
    IF is_in_x_range(x) /\ is_in_y_range(y) THEN Some(unchecked_pixel_at_mut(x, y)) ELSE None

\* The memory a call works on: the surface's pixel slots, the (x, y) handed
\* to unchecked_pixel_at_mut so far and the offsets stored to so far (both in
\* order), and the stores that fell outside the surface's buffer (a
\* raw-pointer store there is undefined behaviour; it is recorded in wild).
Mem(b) == [buf |-> b, calls |-> <<>>, writes |-> <<>>, wild |-> {}]

\* A call of unchecked_pixel_at_mut(x, y).
Called(m, x, y) == [m EXCEPT !.calls = Append(@, <<x, y>>)]

Store(m, off, color) ==
    [buf |-> IF off \in DOMAIN m.buf THEN [m.buf EXCEPT ![off] = color] ELSE m.buf,
     calls |-> m.calls,
     writes |-> Append(m.writes, off),
     wild |-> IF off \in DOMAIN m.buf THEN m.wild ELSE m.wild \cup {off}]

unchecked_draw_point(m, color, x, y) ==
    Store(Called(m, x, y), unchecked_pixel_at_mut(x, y), color)

\* draw_point: [m |-> memory after, res |-> Result]; pixel_at_mut calls
\* unchecked_pixel_at_mut only when both range checks pass.
draw_point(m, color, x, y) ==
    LET p == pixel_at_mut(x, y)
    IN  IF IsSome(p) THEN [m |-> Store(Called(m, x, y), Unwrap(p), color), res |-> Ok]
        ELSE [m |-> m, res |-> Err("Out of Range")]

\* ---------------------------------------------------------------- fill_rect
RECURSIVE UncheckedDrawAll(_, _, _)
UncheckedDrawAll(m, color, pts) ==
    IF pts = <<>> THEN m
    ELSE UncheckedDrawAll(unchecked_draw_point(m, color, Head(pts)[1], Head(pts)[2]), color, Tail(pts))

\* Faulty variant: inclusive loop ranges (py..=py+h, px..=px+w).
FillRectPoints_Inclusive(px, py, w, h) ==
    LET xs == Range(px, px + w + 1)
        ys == Range(py, py + h + 1)
    IN  Flatten([j \in 1..Len(ys) |-> [i \in 1..Len(xs) |-> <<xs[i], ys[j]>>]])

\* The (x, y) visited by `for y in py..py+h { for x in px..px+w {..} }`.
FillRectPoints(px, py, w, h) ==
    LET xs == Range(px, px + w)
        ys == Range(py, py + h)
    IN  Flatten([j \in 1..Len(ys) |-> [i \in 1..Len(xs) |-> <<xs[i], ys[j]>>]])

\* Faulty variant: only the top-left corner is validated.
fill_rect_TopLeftOnly(m, color, px, py, w, h) ==
    IF ~is_in_x_range(px) \/ ~is_in_y_range(py)
    THEN [m |-> m, res |-> Err("Out of Range")]
    ELSE [m |-> UncheckedDrawAll(m, color, FillRectPoints(px, py, w, h)), res |-> Ok]

\* Faulty variant: the bottom edge py + h - 1 is not validated.
fill_rect_NoBottomCheck(m, color, px, py, w, h) ==
    IF \/ ~is_in_x_range(px)
       \/ ~is_in_y_range(py)
       \/ ~is_in_x_range(px + w - 1)
    THEN [m |-> m, res |-> Err("Out of Range")]
    ELSE [m |-> UncheckedDrawAll(m, color, FillRectPoints(px, py, w, h)), res |-> Ok]

\* The far corner p + e - 1 as the source computes it, (p + e) - 1.
far_corner(p, e) ==
    LET s == add(p, e)
        t == sub(s.v, 1)
    IN  [v |-> t.v,
         overflow |-> s.overflow \/ t.overflow,
         msg |-> IF s.overflow THEN "attempt to add with overflow"
                 ELSE "attempt to subtract with overflow"]

\* The four checks are evaluated left to right and stop at the first failure;
\* a corner whose arithmetic overflows panics when overflow_checks is on and
\* is checked with its wrapped value otherwise.
fill_rect(m, color, px, py, w, h) ==
    LET cx == far_corner(px, w)
        cy == far_corner(py, h)
    IN  IF ~is_in_x_range(px) \/ ~is_in_y_range(py)
        THEN [m |-> m, res |-> Err("Out of Range")]
        ELSE IF cx.overflow /\ overflow_checks
        THEN [m |-> m, res |-> Panic(cx.msg)]
        ELSE IF ~is_in_x_range(cx.v)
        THEN [m |-> m, res |-> Err("Out of Range")]
        ELSE IF cy.overflow /\ overflow_checks
        THEN [m |-> m, res |-> Panic(cy.msg)]
        ELSE IF ~is_in_y_range(cy.v)
        THEN [m |-> m, res |-> Err("Out of Range")]
        ELSE [m |-> UncheckedDrawAll(m, color, FillRectPoints(px, py, w, h)), res |-> Ok]

\* ------------------------------------------------------------ line rasterizer
\* Faulty variant: the quotient db*ia/da truncated instead of rounded to nearest.
calc_slope_point_Truncated(da, db, ia) ==
    IF da < db THEN None
    ELSE IF da = 0 THEN Some(0)
    ELSE IF 0 <= ia /\ ia <= da THEN Some(TruncDiv(db * ia, da))
    ELSE None

\* Faulty variant: the final halving is missing, so the minor coordinate runs
\* to twice the minor delta.
calc_slope_point_NotHalved(da, db, ia) ==
    IF da < db THEN None
    ELSE IF da = 0 THEN Some(0)
    ELSE IF 0 <= ia /\ ia <= da THEN Some(TruncDiv(2 * db * ia + da, da))
    ELSE None

calc_slope_point(da, db, ia) ==
    IF da < db THEN None
    ELSE IF da = 0 THEN Some(0)
    ELSE IF 0 <= ia /\ ia <= da THEN Some(TruncDiv(TruncDiv(2 * db * ia + da, da), 2))
    ELSE None

\* Faulty variant: the inclusive range 0..=da, which plots the final endpoint.
SlopePairs_Inclusive(da, db) ==
    LET ias == Range(0, da + 1)
    IN  Flatten([k \in 1..Len(ias) |->
                    LET p == calc_slope_point(da, db, ias[k])
                    IN  IF IsSome(p) THEN << <<ias[k], Unwrap(p)>> >> ELSE <<>>])

\* (0..da).flat_map(|ia| calc_slope_point(da, db, ia).map(|ib| (ia, ib)))
SlopePairs(da, db) ==
    LET ias == Range(0, da)
    IN  Flatten([k \in 1..Len(ias) |->
                    LET p == calc_slope_point(da, db, ias[k])
                    IN  IF IsSome(p) THEN << <<ias[k], Unwrap(p)>> >> ELSE <<>>])

\* The body of both for loops: draw_point(...)? on each pair, leaving at the
\* first Err with the earlier points already stored.
RECURSIVE DrawPoints(_, _, _)
DrawPoints(m, color, pts) ==
    IF pts = <<>> THEN [m |-> m, res |-> Ok]
    ELSE LET r == draw_point(m, color, Head(pts)[1], Head(pts)[2])
         IN  IF r.res.ok THEN DrawPoints(r.m, color, Tail(pts)) ELSE r

\* The absolute points the loops of draw_line hand to draw_point, in order.
LinePoints(x0, y0, x1, y1) ==
    LET dx == abs(x1 - x0)
        sx == signum(x1 - x0)
        dy == abs(y1 - y0)
        sy == signum(y1 - y0)
        major == IF dx >= dy THEN SlopePairs(dx, dy) ELSE SlopePairs(dy, dx)
    IN  [k \in 1..Len(major) |->
            IF dx >= dy
            THEN <<x0 + major[k][1] * sx, y0 + major[k][2] * sy>>
            ELSE <<x0 + major[k][2] * sx, y0 + major[k][1] * sy>>]

\* Faulty variant: only the start point is validated.
draw_line_StartOnly(m, color, x0, y0, x1, y1) ==
    IF ~is_in_x_range(x0) \/ ~is_in_y_range(y0)
    THEN [m |-> m, res |-> Err("Out of Range")]
    ELSE DrawPoints(m, color, LinePoints(x0, y0, x1, y1))

draw_line(m, color, x0, y0, x1, y1) ==
    IF \/ ~is_in_x_range(x0)
       \/ ~is_in_x_range(x1)
       \/ ~is_in_y_range(y0)
       \/ ~is_in_y_range(y1)
    THEN [m |-> m, res |-> Err("Out of Range")]
    ELSE DrawPoints(m, color, LinePoints(x0, y0, x1, y1))

\* ------------------------------------------------------------------ inputs
Colors == {1, 2}

Coords == -1..MaxCoord

Extents == -1..MaxExtent

\* Contents a surface can hold before a call: blank, or a pattern of three
\* values that includes both drawing colours.
InitBufs(h, s) ==
    { [o \in BufOffsets(h, s) |-> 0],
      [o \in BufOffsets(h, s) |-> (o \div bytes_per_pixel) % 3] }

NoCall == [op |-> "none"]

\* ------------------------------------------------- primitives: specification
Init ==
    /\ width \in 0..MaxWidth
    /\ height \in 0..MaxHeight
    /\ pixels_per_line \in 0..MaxStride
    /\ buf \in InitBufs(height, pixels_per_line)
    /\ font_source = <<>>
    /\ cursor_x = 0
    /\ cursor_y = 0
    /\ written = <<>>
    /\ rendered = <<>>
    /\ input = <<>>
    /\ last = NoCall
    /\ pc = "ready"
    /\ overflow_checks = FALSE

\* What a call leaves behind: the surface after it, and the record of the call.
Returned(op, args, r) ==
    /\ buf' = r.m.buf
    /\ last' = [op |-> op, args |-> args, res |-> r.res, prev |-> buf,
                calls |-> r.m.calls, writes |-> r.m.writes, wild |-> r.m.wild]
    /\ pc' = IF "panic" \in DOMAIN r.res THEN "halted" ELSE "returned"
    /\ UNCHANGED <<width, height, pixels_per_line, overflow_checks, font_source, cursor_x, cursor_y, written, rendered, input>>

DrawPoint ==
    /\ pc = "ready"
    /\ \E color \in Colors, x \in Coords, y \in Coords :
          Returned("draw_point", [color |-> color, x |-> x, y |-> y],
                   draw_point(Mem(buf), color, x, y))

FillRect ==
    /\ pc = "ready"
    /\ \E color \in Colors, x \in Coords, y \in Coords, w \in Extents, h \in Extents :
          Returned("fill_rect", [color |-> color, x |-> x, y |-> y, w |-> w, h |-> h],
                   fill_rect(Mem(buf), color, x, y, w, h))

DrawLine ==
    /\ pc = "ready"
    /\ \E color \in Colors, x0 \in Coords, y0 \in Coords, x1 \in Coords, y1 \in Coords :
          Returned("draw_line", [color |-> color, x0 |-> x0, y0 |-> y0, x1 |-> x1, y1 |-> y1],
                   draw_line(Mem(buf), color, x0, y0, x1, y1))

Next == DrawPoint \/ FillRect \/ DrawLine

Spec == Init /\ [][Next]_vars

\* ------------------------------------------------------- claims: primitives
\* The slot of pixel (px, py) in a surface whose rows are pixels_per_line
\* slots long, as the claims address it.
PixelAt(px, py) == bytes_per_pixel * (py * pixels_per_line + px)

\* The offsets stored to by the last call, as a set.
WrittenSet == {last.writes[i] : i \in 1..Len(last.writes)}

\* Every slot outside S holds what it held before the call.
FrameOutside(S) == \A o \in DOMAIN buf : o \notin S => buf[o] = last.prev[o]

CornerOutOfRange(a) ==
    \/ ~is_in_x_range(a.x) \/ ~is_in_y_range(a.y)
    \/ ~is_in_x_range(a.x + a.w - 1) \/ ~is_in_y_range(a.y + a.h - 1)

\* C1: fill_rect is all-or-nothing: when the top-left or the bottom-right
\* corner (x+w-1, y+h-1) fails a range check, the call returns
\* Err("Out of Range") and every pixel slot holds what it held before.
C1_FillRectAllOrNothing ==
    (last.op = "fill_rect" /\ CornerOutOfRange(last.args)) =>
        /\ last.res = Err("Out of Range")
        /\ buf = last.prev
        /\ last.writes = <<>>

\* A fill_rect whose top-left corner is inside and whose bottom-right corner
\* is outside a surface that is not blank.
C1_Witness ==
    /\ last.op = "fill_rect"
    /\ is_in_x_range(last.args.x) /\ is_in_y_range(last.args.y)
    /\ last.args.w >= 2
    /\ ~is_in_x_range(last.args.x + last.args.w - 1)
    /\ \E o \in DOMAIN buf : last.prev[o] # 0

RectSlots(a) ==
    {PixelAt(px, py) : px \in a.x..(a.x + a.w - 1), py \in a.y..(a.y + a.h - 1)}

\* C2: when fill_rect returns Ok, every pixel of [x, x+w) x [y, y+h) holds
\* color and every other slot of the surface, row padding included, holds its
\* previous value.
C2_FillRectCoverageAndFrame ==
    (last.op = "fill_rect" /\ last.res.ok) =>
        /\ \A px \in last.args.x..(last.args.x + last.args.w - 1) :
             \A py \in last.args.y..(last.args.y + last.args.h - 1) :
                /\ PixelAt(px, py) \in DOMAIN buf
                /\ buf[PixelAt(px, py)] = last.args.color
        /\ FrameOutside(RectSlots(last.args))
        /\ last.wild = {}

\* A successful fill of at least 2 x 2 pixels on a padded surface, changing
\* some pixel and leaving a pixel that is not blank.
C2_Witness ==
    /\ last.op = "fill_rect" /\ last.res.ok
    /\ last.args.w >= 2 /\ last.args.h >= 2
    /\ pixels_per_line > width
    /\ buf # last.prev
    /\ \E o \in DOMAIN buf : o \notin RectSlots(last.args) /\ buf[o] # 0

EndpointOutOfRange(a) ==
    \/ ~is_in_x_range(a.x0) \/ ~is_in_x_range(a.x1)
    \/ ~is_in_y_range(a.y0) \/ ~is_in_y_range(a.y1)

\* C3: draw_line with an endpoint coordinate that fails its range check
\* returns an error, stores to no pixel and leaves the surface unchanged.
C3_DrawLineRejectsOutOfRange ==
    (last.op = "draw_line" /\ EndpointOutOfRange(last.args)) =>
        /\ ~last.res.ok
        /\ last.writes = <<>>
        /\ buf = last.prev

\* A draw_line from a pixel of the surface to a point outside it.
C3_Witness ==
    /\ last.op = "draw_line"
    /\ is_in_x_range(last.args.x0) /\ is_in_y_range(last.args.y0)
    /\ ~is_in_x_range(last.args.x1)
    /\ abs(last.args.x1 - last.args.x0) >= 2
    /\ ~last.res.ok

\* C4: a zero-length line draws exactly one point: draw_line(color, x0, y0,
\* x0, y0) with (x0, y0) in range returns Ok, leaves pixel (x0, y0) holding
\* color and every other slot unchanged.
C4_ZeroLengthLineDrawsOnePoint ==
    (/\ last.op = "draw_line"
     /\ last.args.x0 = last.args.x1 /\ last.args.y0 = last.args.y1
     /\ ~EndpointOutOfRange(last.args)) =>
        /\ last.res.ok
        /\ buf[PixelAt(last.args.x0, last.args.y0)] = last.args.color
        /\ FrameOutside({PixelAt(last.args.x0, last.args.y0)})

\* floor((2*db*ia + da) / (2*da)): db*ia/da rounded to nearest, ties up.
SlopePointOf(da, db, ia) == (2 * db * ia + da) \div (2 * da)

\* The plotted set C5 states for a line with endpoints a.
PlottedOf(a) ==
    LET dx == abs(a.x1 - a.x0)
        dy == abs(a.y1 - a.y0)
        sx == signum(a.x1 - a.x0)
        sy == signum(a.y1 - a.y0)
    IN  IF dx >= dy
        THEN {PixelAt(a.x0 + ia * sx, a.y0 + SlopePointOf(dx, dy, ia) * sy) : ia \in 0..(dx - 1)}
        ELSE {PixelAt(a.x0 + SlopePointOf(dy, dx, ia) * sx, a.y0 + ia * sy) : ia \in 0..(dy - 1)}

C7_BoundsCheckedPixelAccess ==
    /\ \A x \in Coords, y \in Coords :
          IsSome(pixel_at_mut(x, y)) <=>
             (0 <= x /\ x < width /\ x < pixels_per_line /\ 0 <= y /\ y < height)
    /\ last.op = "draw_point" =>
          IF /\ 0 <= last.args.x /\ last.args.x < width /\ last.args.x < pixels_per_line
             /\ 0 <= last.args.y /\ last.args.y < height
          THEN /\ last.res.ok
               /\ PixelAt(last.args.x, last.args.y) \in DOMAIN buf
               /\ buf = [last.prev EXCEPT ![PixelAt(last.args.x, last.args.y)] = last.args.color]
               /\ last.writes = <<PixelAt(last.args.x, last.args.y)>>
               /\ last.wild = {}
          ELSE /\ last.res = Err("Out of Range")
               /\ buf = last.prev
               /\ last.writes = <<>>

\* A draw_point rejected at an x between the stride and the width.
C7_Witness ==
    /\ last.op = "draw_point"
    /\ ~last.res.ok
    /\ pixels_per_line <= last.args.x /\ last.args.x < width
    /\ is_in_y_range(last.args.y)

\* ------------------------------------------- calc_slope_point: specification
Deltas == -1..MaxDelta

SlopeInit ==
    /\ width = 0
    /\ height = 0
    /\ pixels_per_line = 0
    /\ buf = <<>>
    /\ font_source = <<>>
    /\ cursor_x = 0
    /\ cursor_y = 0
    /\ written = <<>>
    /\ rendered = <<>>
    /\ input \in [da : Deltas, db : Deltas, ia : Deltas]
    /\ last = NoCall
    /\ pc = "ready"
    /\ overflow_checks = FALSE

CalcSlopePoint ==
    /\ pc = "ready"
    /\ last' = [op |-> "calc_slope_point", args |-> input,
                res |-> calc_slope_point(input.da, input.db, input.ia)]
    /\ pc' = "returned"
    /\ UNCHANGED <<width, height, pixels_per_line, overflow_checks, buf, font_source, cursor_x, cursor_y, written, rendered, input>>

SlopeNext == CalcSlopePoint

SlopeSpec == SlopeInit /\ [][SlopeNext]_vars

\* C6: for da > 0, 0 <= db <= da, 0 <= ia <= da, calc_slope_point(da, db, ia)
\* is floor((2*db*ia + da) / (2*da)), the integer r nearest to db*ia/da with
\* ties rounding up (2*da*r <= 2*db*ia + da < 2*da*(r+1)); slopePoint(10,0,ia)
\* = 0, slopePoint(4,4,2) = 2, slopePoint(5,2,5) = 2; it is 0 when da = db =
\* 0, and no point when da < db or when ia is outside [0, da] with da > 0.
C6_SlopePointRounding ==
    last.op = "calc_slope_point" =>
        LET da == last.args.da
            db == last.args.db
            ia == last.args.ia
        IN  /\ (da > 0 /\ 0 <= db /\ db <= da /\ 0 <= ia /\ ia <= da) =>
                  /\ last.res = Some((2 * db * ia + da) \div (2 * da))
                  /\ 2 * da * Unwrap(last.res) <= 2 * db * ia + da
                  /\ 2 * db * ia + da < 2 * da * (Unwrap(last.res) + 1)
            /\ (da = 10 /\ db = 0 /\ 0 <= ia /\ ia <= 10) => last.res = Some(0)
            /\ (da = 4 /\ db = 4 /\ ia = 2) => last.res = Some(2)
            /\ (da = 5 /\ db = 2 /\ ia = 5) => last.res = Some(2)
            /\ (da = 0 /\ db = 0) => last.res = Some(0)
            /\ (da < db \/ (da > 0 /\ (ia < 0 \/ ia > da))) => last.res = None

\* A tie: db*ia/da lies exactly halfway between two integers and the upper
\* one is returned.
C6_Witness ==
    /\ last.op = "calc_slope_point"
    /\ last.args.da > 0 /\ 0 <= last.args.db /\ last.args.db <= last.args.da
    /\ 0 <= last.args.ia /\ last.args.ia <= last.args.da
    /\ IsSome(last.res)
    /\ 2 * last.args.db * last.args.ia = last.args.da * (2 * Unwrap(last.res) - 1)
    /\ Unwrap(last.res) >= 2

\* ------------------------------------------------------------- glyph table
\* A character of the glyph table is a one-character string; a character
\* handed to the renderer is its code point.
GlyphRows == 16

GlyphCols == 8

\* The pieces of text[lo..hi] between its newlines: those of the first half
\* and of the second half, the last piece of the one joined to the first
\* piece of the other.
RECURSIVE SplitRange(_, _, _)
SplitRange(text, lo, hi) ==
    IF lo > hi THEN << <<>> >>
    ELSE IF lo = hi THEN (IF text[lo] = "\n" THEN << <<>>, <<>> >> ELSE << <<text[lo]>> >>)
    ELSE LET mid == (lo + hi) \div 2
             l == SplitRange(text, lo, mid)
             r == SplitRange(text, mid + 1, hi)
         IN  SubSeq(l, 1, Len(l) - 1) \o << l[Len(l)] \o r[1] >> \o SubSeq(r, 2, Len(r))

\* FONT_SOURCE.split('\n'): the pieces between the newlines, in order.
split(text) == SplitRange(text, 1, Len(text))

\* line.strip_prefix("0x")
strip_prefix_0x(line) ==
    IF Len(line) >= 2 /\ line[1] = "0" /\ line[2] = "x"
    THEN Some(SubSeq(line, 3, Len(line)))
    ELSE None

LowerHex == <<"0", "1", "2", "3", "4", "5", "6", "7", "8", "9", "a", "b", "c", "d", "e", "f">>

UpperHex == <<"0", "1", "2", "3", "4", "5", "6", "7", "8", "9", "A", "B", "C", "D", "E", "F">>

\* char::to_digit(16)
to_digit(ch) ==
    IF \E i \in 1..16 : LowerHex[i] = ch \/ UpperHex[i] = ch
    THEN Some((CHOOSE i \in 1..16 : LowerHex[i] = ch \/ UpperHex[i] = ch) - 1)
    ELSE None

RECURSIVE ParseDigits(_, _, _)
ParseDigits(digits, i, acc) ==
    IF i > Len(digits) THEN Some(acc)
    ELSE LET d == to_digit(digits[i])
         IN  IF ~IsSome(d) THEN None
             ELSE IF acc * 16 + Unwrap(d) > 255 THEN None
             ELSE ParseDigits(digits, i + 1, acc * 16 + Unwrap(d))

\* u8::from_str_radix(src, 16).ok(): an optional leading '+', then one or
\* more hexadecimal digits whose value fits in a byte.
from_str_radix_u8(src) ==
    IF src = <<>> THEN None
    ELSE IF (src[1] = "+" \/ src[1] = "-") /\ Len(src) = 1 THEN None
    ELSE IF src[1] = "+" THEN ParseDigits(src, 2, 0)
    ELSE ParseDigits(src, 1, 0)

\* The font array built from the (up to) 16 lines after line i: cells the
\* lines do not cover keep the initial '*'.
FontAfter(lines, i) ==
    [y \in 1..GlyphRows |->
        [x \in 1..GlyphCols |->
            IF i + y <= Len(lines) /\ x <= Len(lines[i + y]) THEN lines[i + y][x] ELSE "*"]]

\* The while-let scan: the first line that is "0x" + a byte equal to c.
RECURSIVE ScanFont(_, _, _)
ScanFont(lines, i, c) ==
    IF i > Len(lines) THEN None
    ELSE LET p == strip_prefix_0x(lines[i])
             idx == IF IsSome(p) THEN from_str_radix_u8(Unwrap(p)) ELSE None
         IN  IF IsSome(idx) /\ Unwrap(idx) = c
             THEN Some(FontAfter(lines, i))
             ELSE ScanFont(lines, i + 1, c)

\* u8::try_from(c) succeeds for the code points up to 0xFF.
lookup_font(c) == IF c <= 255 THEN ScanFont(split(font_source), 1, c) ELSE None

\* ------------------------------------------------------------ text renderer
\* Faulty variant: every cell of the glyph is painted, lit or not.
LitCells_AllCells(font) ==
    Flatten([dy \in 1..GlyphRows |-> [dx \in 1..GlyphCols |-> <<dx - 1, dy - 1>>]])

\* The (dx, dy) of the cells of font that are '*', rows first.
LitCells(font) ==
    Flatten([dy \in 1..GlyphRows |->
        Flatten([dx \in 1..GlyphCols |->
            IF font[dy][dx] = "*" THEN << <<dx - 1, dy - 1>> >> ELSE <<>>])])

\* `let _ = draw_point(..)` on cells lo..hi of the glyph, in order (the first
\* half, then the second): a rejected point is dropped.
RECURSIVE DrawCells(_, _, _, _, _, _, _)
DrawCells(m, x, y, color, cells, lo, hi) ==
    IF lo > hi THEN m
    ELSE IF lo = hi THEN draw_point(m, color, x + cells[lo][1], y + cells[lo][2]).m
    ELSE LET mid == (lo + hi) \div 2
             left == DrawCells(m, x, y, color, cells, lo, mid)
         IN  IF Len(left.writes) >= Len(m.writes)
             THEN DrawCells(left, x, y, color, cells, mid + 1, hi)
             ELSE left

draw_font_fg(m, x, y, color, c) ==
    LET font == lookup_font(c)
    IN  IF IsSome(font)
        THEN LET cells == LitCells(Unwrap(font))
             IN  DrawCells(m, x, y, color, cells, 1, Len(cells))
        ELSE m

RECURSIVE DrawStr(_, _, _, _, _, _)
DrawStr(m, x, y, color, s, i) ==
    IF i > Len(s) THEN m
    ELSE DrawStr(draw_font_fg(m, x + (i - 1) * 8, y, color, s[i]), x, y, color, s, i + 1)

draw_str_fg(m, x, y, color, s) == DrawStr(m, x, y, color, s, 1)

\* Faulty variant: a newline moves the cursor down without returning it to column 0.
WriteChar_NoCarriageReturn(w, c) ==
    IF c = 10
    THEN [w EXCEPT !.cursor_y = w.cursor_y + 16]
    ELSE LET call == [c |-> c, x |-> w.cursor_x, y |-> w.cursor_y]
         IN  [m |-> draw_font_fg(w.m, call.x, call.y, 16777215, call.c),
              cursor_x |-> w.cursor_x + 8,
              cursor_y |-> w.cursor_y,
              rendered |-> Append(w.rendered, call)]

\* One iteration of write_str's loop on the writer w = [m, cursor_x,
\* cursor_y, rendered]; rendered lists the draw_font_fg calls made.
WriteChar(w, c) ==
    IF c = 10
    THEN [w EXCEPT !.cursor_y = w.cursor_y + 16, !.cursor_x = 0]
    ELSE LET call == [c |-> c, x |-> w.cursor_x, y |-> w.cursor_y]
         IN  [m |-> draw_font_fg(w.m, call.x, call.y, 16777215, call.c),
              cursor_x |-> w.cursor_x + 8,
              cursor_y |-> w.cursor_y,
              rendered |-> Append(w.rendered, call)]

RECURSIVE WriteChars(_, _, _)
WriteChars(w, s, i) == IF i > Len(s) THEN w ELSE WriteChars(WriteChar(w, s[i]), s, i + 1)

write_str(w, s) == [w |-> WriteChars(w, s, 1), res |-> Ok]

\* ------------------------------------------------------ glyph tables (input)
PatternA == [r \in 1..GlyphRows |-> [c \in 1..GlyphCols |-> IF (r + c) % 3 = 0 THEN "*" ELSE "."]]

PatternB == [r \in 1..GlyphRows |-> [c \in 1..GlyphCols |-> IF c = ((r - 1) % GlyphCols) + 1 THEN "*" ELSE " "]]

\* A pattern whose first row reads 0x000041.
PatternH ==
    [r \in 1..GlyphRows |->
        IF r = 1 THEN <<"0", "x", "0", "0", "0", "0", "4", "1">>
        ELSE [c \in 1..GlyphCols |-> IF c <= 2 THEN "*" ELSE "."]]

Blocks ==
    { [code |-> <<"4", "1">>, rows |-> PatternA],
      [code |-> <<"4", "1">>, rows |-> PatternB],
      [code |-> <<"4", "2">>, rows |-> PatternB],
      [code |-> <<"4", "2">>, rows |-> PatternH] }

\* The text of one block: "0xHH\n" and 16 lines of 8 characters.
BlockText(b) ==
    <<"0", "x">> \o b.code \o <<"\n">> \o Flatten([r \in 1..GlyphRows |-> b.rows[r] \o <<"\n">>])

TableText(bs) == Flatten([k \in 1..Len(bs) |-> BlockText(bs[k])])

Tables == UNION {[1..n -> Blocks] : n \in 0..MaxBlocks}

\* ----------------------------------------------- lookup_font: specification
\* 'A', 'B', 'C', a line feed, and two characters of more than one byte.
Chars == {65, 66, 67, 10, 256, 12354}

LookupInit ==
    /\ width = 0
    /\ height = 0
    /\ pixels_per_line = 0
    /\ buf = <<>>
    /\ font_source \in {TableText(t) : t \in Tables}
    /\ cursor_x = 0
    /\ cursor_y = 0
    /\ written = <<>>
    /\ rendered = <<>>
    /\ input = <<>>
    /\ last = NoCall
    /\ pc = "ready"
    /\ overflow_checks = FALSE

LookupFont ==
    /\ pc = "ready"
    /\ \E c \in Chars :
          last' = [op |-> "lookup_font", args |-> [c |-> c], res |-> lookup_font(c)]
    /\ pc' = "returned"
    /\ UNCHANGED <<width, height, pixels_per_line, overflow_checks, buf, font_source, cursor_x, cursor_y, written, rendered, input>>

LookupNext == LookupFont

LookupSpec == LookupInit /\ [][LookupNext]_vars

\* --------------------------------------------- glyph rendering: specification
FontGeoms ==
    { [width |-> 10, height |-> 20, pixels_per_line |-> 12],
      [width |-> 12, height |-> 12, pixels_per_line |-> 9],
      [width |-> 5, height |-> 18, pixels_per_line |-> 5] }

\* The tables the renderer is run on: none, A and B, and A after a block
\* whose first row reads 0x000041.
FontTables ==
    { <<>>,
      << [code |-> <<"4", "1">>, rows |-> PatternA], [code |-> <<"4", "2">>, rows |-> PatternB] >>,
      << [code |-> <<"4", "2">>, rows |-> PatternH], [code |-> <<"4", "1">>, rows |-> PatternB] >> }

FontXs == {-3, 0, 4, 8}

FontYs == {-5, 0, 8, 16}

FontInit ==
    /\ \E g \in FontGeoms :
          /\ width = g.width
          /\ height = g.height
          /\ pixels_per_line = g.pixels_per_line
    /\ buf \in InitBufs(height, pixels_per_line)
    /\ font_source \in {TableText(t) : t \in FontTables}
    /\ cursor_x = 0
    /\ cursor_y = 0
    /\ written = <<>>
    /\ rendered = <<>>
    /\ input = <<>>
    /\ last = NoCall
    /\ pc = "ready"
    /\ overflow_checks = FALSE

DrawFontFg ==
    /\ pc = "ready"
    /\ \E x \in FontXs, y \in FontYs, color \in Colors, c \in Chars :
          Returned("draw_font_fg", [x |-> x, y |-> y, color |-> color, c |-> c],
                   [m |-> draw_font_fg(Mem(buf), x, y, color, c), res |-> Ok])

DrawStrFg ==
    /\ pc = "ready"
    /\ \E x \in FontXs, y \in FontYs, color \in Colors, s \in {<<>>, <<65, 66>>, <<12354, 66>>} :
          Returned("draw_str_fg", [x |-> x, y |-> y, color |-> color, s |-> s],
                   [m |-> draw_str_fg(Mem(buf), x, y, color, s), res |-> Ok])

FontNext == DrawFontFg \/ DrawStrFg

FontSpec == FontInit /\ [][FontNext]_vars

\* ------------------------------------------------- text writer: specification
\* The strings handed to write_str: "", "AB", "\nC", "\n", one character of
\* more than one byte, and "AB\nC".
WriteStrings == { <<>>, <<65, 66>>, <<10, 67>>, <<10>>, <<12354>>, <<65, 66, 10, 67>> }

\* VramTextWriter::new on a surface: the writer holds the surface's exclusive
\* borrow (pc = "writer"), so no other drawing call runs while it lives.
TextInit ==
    /\ \E g \in FontGeoms :
          /\ width = g.width
          /\ height = g.height
          /\ pixels_per_line = g.pixels_per_line
    /\ buf \in InitBufs(height, pixels_per_line)
    /\ font_source \in {TableText(t) : t \in FontTables}
    /\ cursor_x = 0
    /\ cursor_y = 0
    /\ written = <<>>
    /\ rendered = <<>>
    /\ input = <<>>
    /\ last = NoCall
    /\ pc = "writer"
    /\ overflow_checks = FALSE

WriteStr ==
    /\ pc = "writer"
    /\ \E s \in WriteStrings :
          /\ Len(written) + Len(s) <= MaxChars
          /\ LET r == write_str([m |-> Mem(buf), cursor_x |-> cursor_x, cursor_y |-> cursor_y,
                                 rendered |-> rendered], s)
             IN  /\ buf' = r.w.m.buf
                 /\ cursor_x' = r.w.cursor_x
                 /\ cursor_y' = r.w.cursor_y
                 /\ rendered' = r.w.rendered
                 /\ written' = written \o s
                 /\ last' = [op |-> "write_str", args |-> [s |-> s], res |-> r.res, prev |-> buf,
                             at |-> [x |-> cursor_x, y |-> cursor_y],
                             calls |-> r.w.m.calls, writes |-> r.w.m.writes, wild |-> r.w.m.wild]
    /\ UNCHANGED <<width, height, pixels_per_line, overflow_checks, font_source, input, pc>>

TextNext == WriteStr

TextSpec == TextInit /\ [][TextNext]_vars

\* ---------------------------------------------------- claims: glyphs and text
\* The glyph table read by position: block k takes the characters from
\* (k-1)*BlockLen + 1 on, "0xHH\n" and then 16 lines of 8 characters and '\n'.
BlockLen == 5 + GlyphRows * (GlyphCols + 1)

NumBlocks == Len(font_source) \div BlockLen

BlockCode(k) ==
    16 * Unwrap(to_digit(font_source[(k - 1) * BlockLen + 3]))
       + Unwrap(to_digit(font_source[(k - 1) * BlockLen + 4]))

BlockPattern(k) ==
    [y \in 1..GlyphRows |->
        [x \in 1..GlyphCols |-> font_source[(k - 1) * BlockLen + 5 + (y - 1) * (GlyphCols + 1) + x]]]

\* C10: lookup_font(c) returns the 16x8 pattern of the first block whose
\* header code equals the code of c when that code is at most 0xFF and such a
\* block exists, and no glyph otherwise (no block with that code, or a
\* character that does not fit in one byte).
C10_GlyphLookup ==
    last.op = "lookup_font" =>
        LET c == last.args.c
            hits == {k \in 1..NumBlocks : BlockCode(k) = c}
        IN  IF c <= 255 /\ hits # {}
            THEN last.res = Some(BlockPattern(CHOOSE k \in hits : \A j \in hits : k <= j))
            ELSE last.res = None

\* The cells of the 8x16 glyph cell anchored at (a.x, a.y) that are lit in
\* glyph g (an Option) and fall inside the surface, as slots.
LitSlots(a, g) ==
    IF IsSome(g)
    THEN {PixelAt(a.x + d[1], a.y + d[2]) :
             d \in {e \in (0..(GlyphCols - 1)) \X (0..(GlyphRows - 1)) :
                      /\ Unwrap(g)[e[2] + 1][e[1] + 1] = "*"
                      /\ 0 <= a.x + e[1] /\ a.x + e[1] < width /\ a.x + e[1] < pixels_per_line
                      /\ 0 <= a.y + e[2] /\ a.y + e[2] < height}}
    ELSE {}

\* C9: draw_font_fg stores color to exactly the pixels (x+dx, y+dy) with
\* 0 <= dx < 8, 0 <= dy < 16 whose glyph cell (dy, dx) is '*' and that are in
\* range; unlit cells, cells outside the surface and every other slot keep
\* their value; a character without a glyph draws nothing; the call returns
\* without an error.
C9_DrawFontFgPaintsLitCells ==
    last.op = "draw_font_fg" =>
        LET g == lookup_font(last.args.c)
        IN  /\ WrittenSet = LitSlots(last.args, g)
            /\ \A o \in WrittenSet : o \in DOMAIN buf /\ buf[o] = last.args.color
            /\ FrameOutside(LitSlots(last.args, g))
            /\ (~IsSome(g) => last.writes = <<>> /\ buf = last.prev)
            /\ last.wild = {}
            /\ last.res = Ok

\* A glyph drawn across the right edge of a surface that is not blank: some
\* lit cell is stored, some lit cell is dropped, and an unlit cell inside the
\* surface keeps a value that is neither blank nor the colour.
C9_Witness ==
    /\ last.op = "draw_font_fg"
    /\ IsSome(lookup_font(last.args.c))
    /\ WrittenSet # {}
    /\ \E dx \in 0..(GlyphCols - 1), dy \in 0..(GlyphRows - 1) :
          /\ lookup_font(last.args.c)[1][dy + 1][dx + 1] = "*"
          /\ ~is_in_x_range(last.args.x + dx)
          /\ is_in_y_range(last.args.y + dy)
    /\ \E dx \in 0..(GlyphCols - 1), dy \in 0..(GlyphRows - 1) :
          /\ lookup_font(last.args.c)[1][dy + 1][dx + 1] # "*"
          /\ is_in_x_range(last.args.x + dx) /\ is_in_y_range(last.args.y + dy)
          /\ buf[PixelAt(last.args.x + dx, last.args.y + dy)] \notin {0, last.args.color}

\* The number of line feeds among the first n characters written.
NewlinesBefore(n) == Cardinality({i \in 1..n : written[i] = 10})

\* The number of characters among the first n written that follow the last
\* line feed among them.
ColumnAfter(n) ==
    LET nls == {i \in 1..n : written[i] = 10}
    IN  IF nls = {} THEN n ELSE n - (CHOOSE i \in nls : \A j \in nls : j <= i)

\* The positions in written of the characters that are not line feeds.
Printed == {i \in 1..Len(written) : written[i] # 10}

\* C8: the cursor starts at (0,0); after any sequence of write_str calls
\* cursor_y = 16 * (line feeds written so far), cursor_x = 8 * (characters
\* written since the last line feed), and every other character, with or
\* without a glyph, was rendered at the cursor held just before it was
\* processed; "AB\nC" renders 'A' at (0,0), 'B' at (8,0), 'C' at (0,16).
C8_TextWriterCursorProtocol ==
    /\ cursor_y = 16 * NewlinesBefore(Len(written))
    /\ cursor_x = 8 * ColumnAfter(Len(written))
    /\ Len(rendered) = Cardinality(Printed)
    /\ \A i \in Printed :
          rendered[Cardinality({j \in Printed : j <= i})] =
             [c |-> written[i], x |-> 8 * ColumnAfter(i - 1), y |-> 16 * NewlinesBefore(i - 1)]
    /\ written = <<65, 66, 10, 67>> =>
          rendered = << [c |-> 65, x |-> 0, y |-> 0], [c |-> 66, x |-> 8, y |-> 0],
                        [c |-> 67, x |-> 0, y |-> 16] >>
    /\ last.op = "write_str" => last.res = Ok

\* "AB\nC" written in two calls, "AB" and then "\nC".
C8_Witness ==
    /\ written = <<65, 66, 10, 67>>
    /\ last.op = "write_str" /\ last.args.s = <<10, 67>>
    /\ cursor_x = 8 /\ cursor_y = 16

\* ------------------------------------------- all drawing calls: specification
\* Any of the six drawing operations, on the small surfaces of the primitives
\* and on the surfaces and glyph tables of the renderer.
AllInit == Init \/ FontInit \/ TextInit

AllNext == Next \/ FontNext \/ TextNext

AllSpec == AllInit /\ [][AllNext]_vars

\* The pixels that pass both range checks.
InRangePixels ==
    {p \in (0..(width - 1)) \X (0..(height - 1)) : p[1] < pixels_per_line}

\* C11: in every execution of fill_rect, draw_line, draw_point, draw_font_fg,
\* draw_str_fg and write_str, every call of unchecked_pixel_at_mut(x, y) is
\* made with 0 <= x < min(width, stride) and 0 <= y < height, so every byte
\* offset written, (y*stride + x)*bytesPerPixel, lies in
\* [0, height*stride*bytesPerPixel) inside the buffer, and distinct in-range
\* pixels never share an offset.
C11_UncheckedPathGuarded ==
    /\ last.op \in {"fill_rect", "draw_line", "draw_point", "draw_font_fg", "draw_str_fg", "write_str"} =>
          /\ \A i \in 1..Len(last.calls) :
                /\ 0 <= last.calls[i][1] /\ last.calls[i][1] < width
                /\ last.calls[i][1] < pixels_per_line
                /\ 0 <= last.calls[i][2] /\ last.calls[i][2] < height
          /\ Len(last.writes) = Len(last.calls)
          /\ \A i \in 1..Len(last.writes) :
                /\ last.writes[i] = (last.calls[i][2] * pixels_per_line + last.calls[i][1]) * bytes_per_pixel
                /\ 0 <= last.writes[i]
                /\ last.writes[i] < height * pixels_per_line * bytes_per_pixel
                /\ last.writes[i] \in DOMAIN buf
          /\ last.wild = {}
    /\ Cardinality({unchecked_pixel_at_mut(p[1], p[2]) : p \in InRangePixels}) = Cardinality(InRangePixels)

\* A fill_rect that reaches the last visible column and the last row of a
\* surface whose rows are padded, through at least four unchecked calls.
C11_Witness ==
    /\ last.op = "fill_rect" /\ last.res.ok
    /\ Len(last.calls) >= 4
    /\ pixels_per_line > width
    /\ last.args.x + last.args.w = width
    /\ last.args.y + last.args.h = height

\* C12: when all four endpoint coordinates pass the range checks, every point
\* the rasterizer loop hands to draw_point lies inside the bounding box of the
\* two endpoints, so it is accepted and draw_line returns Ok; hence an error
\* returned by draw_line means that no pixel was stored to or changed.
C12_DrawLineNeverFailsMidway ==
    last.op = "draw_line" =>
        /\ ~EndpointOutOfRange(last.args) =>
              /\ \A k \in 1..Len(LinePoints(last.args.x0, last.args.y0, last.args.x1, last.args.y1)) :
                    LET p == LinePoints(last.args.x0, last.args.y0, last.args.x1, last.args.y1)[k]
                    IN  /\ min(last.args.x0, last.args.x1) <= p[1]
                        /\ p[1] <= last.args.x0 + last.args.x1 - min(last.args.x0, last.args.x1)
                        /\ min(last.args.y0, last.args.y1) <= p[2]
                        /\ p[2] <= last.args.y0 + last.args.y1 - min(last.args.y0, last.args.y1)
                        /\ IsSome(pixel_at_mut(p[1], p[2]))
              /\ last.calls = LinePoints(last.args.x0, last.args.y0, last.args.x1, last.args.y1)
              /\ last.res = Ok
        /\ ~last.res.ok => (last.writes = <<>> /\ buf = last.prev)

\* A line between two opposite corners of the visible surface, from the
\* bottom left to the top right, whose minor coordinate moves, drawn in full.
C12_Witness ==
    /\ last.op = "draw_line" /\ last.res.ok
    /\ last.args.x0 = 0 /\ last.args.x1 = min(width, pixels_per_line) - 1
    /\ last.args.y0 = height - 1 /\ last.args.y1 = 0
    /\ last.args.x1 >= 2 /\ last.args.y0 >= 1
    /\ Len(last.calls) >= 2
    /\ \E k \in 1..Len(last.calls) : last.calls[k][2] # last.args.y0

\* The number of line feeds in string s, and the number of characters of s
\* after its last line feed.
LineFeeds(s) == Cardinality({i \in 1..Len(s) : s[i] = 10})

TailColumns(s) ==
    LET nls == {i \in 1..Len(s) : s[i] = 10}
    IN  IF nls = {} THEN Len(s) ELSE Len(s) - (CHOOSE i \in nls : \A j \in nls : j <= i)

\* The draw_font_fg calls of the last write_str: the newest entries of
\* rendered, one for each character of the string that is not a line feed.
LastRendered ==
    {rendered[i] : i \in (Len(rendered) - (Len(last.args.s) - LineFeeds(last.args.s)) + 1)..Len(rendered)}

\* C13: write_str returns Ok for every string; once cursor_y >= height a
\* write stores to no pixel and leaves the whole surface unchanged while the
\* cursor advances as usual; and glyph cells at a column >= min(width, stride)
\* (or a row outside the surface) are dropped: the pixels stored to are
\* exactly the in-range lit cells of the glyphs drawn, all others keep their
\* value.
C13_TextWriterClipsSilently ==
    last.op = "write_str" =>
        /\ last.res = Ok
        /\ last.at.y >= height =>
              /\ last.writes = <<>>
              /\ buf = last.prev
        /\ cursor_y = last.at.y + 16 * LineFeeds(last.args.s)
        /\ cursor_x = (IF LineFeeds(last.args.s) = 0 THEN last.at.x ELSE 0) + 8 * TailColumns(last.args.s)
        /\ WrittenSet = UNION {LitSlots(a, lookup_font(a.c)) : a \in LastRendered}
        /\ FrameOutside(WrittenSet)
        /\ last.wild = {}

\* A string with a character that has a glyph, written with the cursor
\* already below a surface that is not blank: nothing changes, the cursor
\* moves right.
C13_Witness ==
    /\ last.op = "write_str"
    /\ last.at.y >= height
    /\ \E i \in 1..Len(last.args.s) : last.args.s[i] # 10 /\ IsSome(lookup_font(last.args.s[i]))
    /\ LineFeeds(last.args.s) = 0
    /\ cursor_x > last.at.x
    /\ \E o \in DOMAIN buf : buf[o] # 0

\* ------------------------------------------- fill_rect at the integer limits
\* Extents at and next to the ends of the signed range, with small ones.
WideExtents == {IntMin, IntMin + 1, -1, 1, 2, IntMax - 1, IntMax}

\* A surface as in Init with at least one pixel per row and one row; the
\* build either has overflow checks (the default of a debug build) or has
\* not (the default of a release build).
OverflowInit ==
    /\ width \in 1..MaxWidth
    /\ height \in 1..MaxHeight
    /\ pixels_per_line \in {width, MaxStride}
    /\ buf \in InitBufs(height, pixels_per_line)
    /\ font_source = <<>>
    /\ cursor_x = 0
    /\ cursor_y = 0
    /\ written = <<>>
    /\ rendered = <<>>
    /\ input = <<>>
    /\ last = NoCall
    /\ pc = "ready"
    /\ overflow_checks \in BOOLEAN

FillRectWide ==
    /\ pc = "ready"
    /\ \E color \in Colors, x \in Coords, y \in Coords, w \in WideExtents, h \in WideExtents :
          Returned("fill_rect", [color |-> color, x |-> x, y |-> y, w |-> w, h |-> h],
                   fill_rect(Mem(buf), color, x, y, w, h))

OverflowNext == FillRectWide

OverflowSpec == OverflowInit /\ [][OverflowNext]_vars

\* C14: for every in-range (x, y) and every w, h such that x+w-1 or y+h-1
\* leaves the signed range, fill_rect returns Err("Out of Range") and stores
\* to no pixel; and fill_rect never accepts a rectangle that does not truly
\* fit in the surface, whatever its corner arithmetic wrapped to.
C14_OverflowingExtentsRejected ==
    last.op = "fill_rect" =>
        /\ (/\ is_in_x_range(last.args.x)
            /\ is_in_y_range(last.args.y)
            /\ \/ Overflows(last.args.x + last.args.w - 1)
               \/ Overflows(last.args.y + last.args.h - 1)) =>
              /\ pc = "returned"
              /\ last.res = Err("Out of Range")
              /\ last.writes = <<>>
              /\ buf = last.prev
        /\ last.res.ok => ~CornerOutOfRange(last.args)

====
